---- MODULE Spec2Model ----
(***************************************************************************)
(* Incident detection run of challenge_Simetrik: main() prepares the       *)
(* inputs, generate_global_report iterates the sources of files_data and   *)
(* analyze_source asks an external generative service for the incidents    *)
(* of one source, retrying on throttling, and turns the answer into a      *)
(* SourceReport.  Both agents are modelled: the direct GenAI agent         *)
(* (src/src/agent_adk.py) and the ADK agent (src/src/agent_google_adk.py). *)
(* The loaders and the profile parser of InputPreparer                     *)
(* (src/src/input_preparer.py) are modelled under SpecPrep.                *)
(***************************************************************************)
EXTENDS Integers, Sequences, FiniteSets, TLC

VARIABLES
    agent_type,      \* "genai" | "adk": which agent main() instantiated
    order,           \* iteration order of files_data (its keys, in insertion order)
    files_data,      \* source id -> today's records
    cvs,             \* source id -> SourceCV, only for sources whose CV was found
    pc,              \* position of the run: "loop", "call", "pace", "done", "aborted"
    idx,             \* position of the for loop of generate_global_report in order
    attempt,         \* loop variable of the retry loop of analyze_source
    response_text,   \* text accumulated by the ADK agent over the attempts
    exc,             \* message of the exception caught by the last attempt
    delays,          \* backoff delays slept by the current analyze_source call
    returned,        \* which return statement ended the last analyze_source call
    answer,          \* the JSON object the last analyze_source call parsed
    source_reports,  \* local list of generate_global_report
    report,          \* main()'s variable report (line 86)
    paced,           \* number of pacing sleeps (time.sleep(4)) done so far
    called,          \* sources for which the external service has been called
    last_week_files_data, \* source id -> the records of the same weekday last week
    context,         \* main()'s dict context (line 84)
    source_context,  \* local of generate_global_report: the context analyze_source gets
    sessions,        \* ids of the sessions the ADK agent's session_service holds
    in_flight,       \* sources whose analyze_source call has not returned yet
    idle,            \* seconds of pacing sleep since the last analysis returned
    again,           \* whether the program is run a second time on the same data
    previous,        \* the report of the earlier run, once the second has started
    \* InputPreparer (src/src/input_preparer.py)
    method,          \* the method called: load_files_data, load_last_weekday_files, parse_cv
    path_exists,     \* os.path.exists of the file the method reads
    raw_data,        \* json.load(f): per source, in the order of the file, its items
    content,         \* f.read() of the profile: the table rows of the markdown text
    step,            \* position in the method
    pos,             \* position of the loop over raw_data.items(), or over days
    item_pos,        \* position of the loop over the items of a source
    parsed_files,    \* local list of the loaders
    parsed_data,     \* local dict of the loaders
    upload_schedule, \* local dict of parse_cv, as a set of <<day, time>>
    volume_stats     \* local dict of parse_cv, as a set of <<day, stats>>

vars == <<agent_type, order, files_data, cvs, pc, idx, attempt, response_text, exc,
          delays, returned, answer, source_reports, report, paced, called,
          last_week_files_data, context, source_context, sessions, in_flight, idle,
          again, previous, method, path_exists, raw_data, content, step, pos, item_pos,
          parsed_files, parsed_data, upload_schedule, volume_stats>>

\* The variables of the run, and those of the input preparation.
run_vars == <<agent_type, order, files_data, cvs, pc, idx, attempt, response_text, exc,
              delays, returned, answer, source_reports, report, paced, called,
              last_week_files_data, context, source_context, sessions, in_flight, idle,
              again, previous>>

prep_vars == <<method, path_exists, raw_data, content, step, pos, item_pos,
               parsed_files, parsed_data, upload_schedule, volume_stats>>

----------------------------------------------------------------------------
\* Bounds of the exploration.

\* Largest number of sources in files_data.
NumSources == 2

\* Largest number of items of a files.json, all sources together.
MaxItems == 3

\* Largest number of per-day table rows of a profile.
MaxRows == 3

\* Longest incidents array the service returns (to the first attempt of a run over
\* a single source; see ResponseTexts).
MaxIncidents == 4

----------------------------------------------------------------------------
\* Program constants.

max_retries == 5

\* time.sleep(4) # Avoid rate limits
PacingDelay == 4

base_delay == 10

\* Python's None, and a key absent from a JSON object.
None == "None"

Absent == "<absent>"

URGENT == "URGENT"

ATTENTION_REQUIRED == "ATTENTION_REQUIRED"

ALL_GOOD == "ALL_GOOD"

IncidentSeverity == {URGENT, ATTENTION_REQUIRED, ALL_GOOD}

FAILED_FILE == "Failed File"

IncidentType ==
    {"Missing File", "Duplicated File", "Unexpected Empty File",
     "Unexpected Volume Variation", "File Upload After Schedule",
     "Upload of Previous File", FAILED_FILE}

\* The run date is a Monday; date_str is what main() passes on.
date_str == "2025-09-08"

RunWeekday == "Mon"

----------------------------------------------------------------------------
\* Inputs of a run.

\* One validated record of files.json.
FileRecord == [filename |-> "f1.csv", rows |-> 10, status |-> "SUCCEEDED",
               is_duplicated |-> FALSE]

\* The records of the run date of a source that has some: the first source
\* uploaded the same file name twice, the others one file.
TodaysRecords(source_id) ==
    IF source_id = 1 THEN <<FileRecord, FileRecord>> ELSE <<FileRecord>>

\* A SourceCV as parse_cv builds it; upload_schedule is a set of <<day, time>>.
SourceCV(source_id, schedule) ==
    [resource_id |-> source_id, upload_schedule |-> schedule]

\* A record of files_last_weekday.json; the row count tells the sources apart.
LastWeekRecord(source_id) ==
    [filename |-> "f0.csv", rows |-> 100 + source_id, status |-> "SUCCEEDED",
     is_duplicated |-> FALSE]

\* The inputs of one source: its records of the day, what parse_cv returns for
\* it (cv_found is FALSE when it returns None), and its entry of
\* files_last_weekday.json (last_week_found is FALSE when it has none).
SourceInputs(source_id) ==
    {[files |-> <<>>, cv_found |-> FALSE, cv |-> SourceCV(source_id, {}),
      last_week_found |-> TRUE, last_week |-> <<LastWeekRecord(source_id)>>],
     [files |-> <<>>, cv_found |-> TRUE,
      cv |-> SourceCV(source_id, {<<RunWeekday, "15:00">>}),
      last_week_found |-> FALSE, last_week |-> <<>>],
     [files |-> TodaysRecords(source_id), cv_found |-> TRUE,
      cv |-> SourceCV(source_id, {}),
      last_week_found |-> TRUE, last_week |-> <<LastWeekRecord(source_id)>>]}

\* Variant of HasCv that takes every source to have a profile.
HasCvAlways(c, source_id) == TRUE

\* cv = cvs.get(source_id); if not cv: continue
HasCv(c, source_id) == source_id \in DOMAIN c

----------------------------------------------------------------------------
\* Exceptions of the external call.  A message is a sequence of words, so the
\* substring tests of the retry loop are membership tests.

Contains(msg, word) == \E i \in 1..Len(msg) : msg[i] = word

NoExc == <<>>

Exc429 == <<"429", "Too Many Requests">>

ExcExhausted == <<"Resource exhausted">>

ExcServer == <<"500", "Internal Server Error">>

ExcNoText == <<"No response text received from ADK Agent">>

ServiceErrors == {Exc429, ExcExhausted, ExcServer}

\* "429" in str(e) or "Resource exhausted" in str(e)
IsThrottling(e) == Contains(e, "429") \/ Contains(e, "Resource exhausted")

\* delay = base_delay * (2 ** attempt)
Pow2(n) == IF n = 0 THEN 1 ELSE IF n = 1 THEN 2 ELSE IF n = 2 THEN 4
           ELSE IF n = 3 THEN 8 ELSE 16

\* Variant of BackoffDelay that grows linearly.
BackoffDelayLinear(a) == base_delay * (a + 1)

BackoffDelay(a) == base_delay * Pow2(a)

----------------------------------------------------------------------------
\* Answers of the external service.  A text is a sequence of tokens: a markdown
\* code fence (plain, or opening a json block), a JSON value, or something that is not JSON.

FenceJson == [t |-> "fence_json"]

Fence == [t |-> "fence"]

Junk == [t |-> "junk"]

Json(v) == [t |-> "json", v |-> v]

\* The entries an incidents array is made of.
EntryUrgent == [incident_type |-> "Missing File", severity |-> URGENT,
                description |-> "no file received", file_name |-> None]

EntryAttention == [incident_type |-> "Duplicated File", severity |-> ATTENTION_REQUIRED,
                   description |-> "duplicate", file_name |-> "f1.csv"]

EntryAllGood == [incident_type |-> "Unexpected Empty File", severity |-> ALL_GOOD,
                 description |-> "empty but expected", file_name |-> "f1.csv"]

EntryUnknown == [incident_type |-> "Schema Drift", severity |-> "CRITICAL",
                 description |-> "unknown labels", file_name |-> "f1.csv"]

EntryNoDescription == [incident_type |-> "Failed File", severity |-> URGENT,
                       description |-> None, file_name |-> "f1.csv"]

Entries == {EntryUrgent, EntryAttention, EntryAllGood, EntryUnknown, EntryNoDescription}

SeqsUpTo(S, n) == UNION {[1..k -> S] : k \in 0..n}

\* The values of the top-level status field, Absent when the key is missing.
StatusFields == IncidentSeverity \cup {Absent, "CRITICAL"}

\* The JSON objects the service answers with, over a set of incidents arrays:
\* objects with every key, and objects with the incidents key alone (an absent
\* recommendations key reads as []).
JsonObjects(arrays) ==
    [kind : {"object"}, incidents : arrays, status : StatusFields \ {Absent},
     recommendations : {<< <<"Rec 1">> >>}]
    \cup [kind : {"object"}, incidents : arrays, status : {Absent},
          recommendations : {<<>>}]

\* A JSON value that is not an object.
JsonArray == [kind |-> "array"]

\* The texts the service answers with: nothing, not JSON, JSON.
PlainTexts(arrays) ==
    {<<>>, <<Junk>>, <<Json(JsonArray)>>} \cup {<<Json(o)>> : o \in JsonObjects(arrays)}

\* The same, and JSON inside a markdown code block.
Texts(arrays) ==
    PlainTexts(arrays)
    \cup {<<FenceJson, Json(o), Fence>> : o \in JsonObjects(arrays)}
    \cup {<<Fence, Json(o), Fence>> : o \in JsonObjects(arrays)}

\* The answers explored: every incidents array up to MaxIncidents entries, plain
\* or in a code block, for the first attempt of a run over one source; two short
\* arrays, plain, for a retry and for a run over several sources.
ResponseTexts(sources, a) ==
    IF sources = 1 /\ a = 0 THEN Texts(SeqsUpTo(Entries, MaxIncidents))
    ELSE PlainTexts({<<>>, <<EntryUrgent>>})

\* The text the events of an ADK attempt carry before the iteration raises:
\* usually none; explored for the first attempt of a run over one source are
\* also a whole answer and an answer inside a code block that is not closed.
EarlyObject == [kind |-> "object", incidents |-> <<EntryAttention>>,
                status |-> ATTENTION_REQUIRED, recommendations |-> << <<"Rec 1">> >>]

PartialTexts(agent, sources, a) ==
    IF agent = "adk" /\ sources = 1 /\ a = 0
    THEN {<<>>, <<Json(EarlyObject)>>, <<FenceJson, Json(EarlyObject)>>}
    ELSE {<<>>}

----------------------------------------------------------------------------
\* Parsing of the answer (step 3 of analyze_source).

\* Position of the first token equal to tok at or after position from, 0 if none.
RECURSIVE Find(_, _, _)
Find(text, tok, from) ==
    IF from > Len(text) THEN 0
    ELSE IF text[from] = tok THEN from
    ELSE Find(text, tok, from + 1)

\* Position of the first fence of either kind at or after from, 0 if none.
RECURSIVE FindAnyFence(_, _)
FindAnyFence(text, from) ==
    IF from > Len(text) THEN 0
    ELSE IF text[from] \in {Fence, FenceJson} THEN from
    ELSE FindAnyFence(text, from + 1)

\* text.split(opening)[1].split(fence)[0]: what follows the first opening fence,
\* up to the next fence of either kind (the json fence starts with the plain one).
Fenced(text, opening) ==
    LET a == Find(text, opening, 1)
        b == FindAnyFence(text, a + 1)
    IN  SubSeq(text, a + 1, IF b = 0 THEN Len(text) ELSE b - 1)

\* Clean up potential markdown code blocks (ADK agent only).
CleanUp(text) ==
    IF Find(text, FenceJson, 1) # 0 THEN Fenced(text, FenceJson)
    ELSE IF Find(text, Fence, 1) # 0 THEN Fenced(text, Fence)
    ELSE text

\* json.loads: succeeds on exactly one JSON value and raises on anything else.
JsonLoads(text) ==
    IF Len(text) = 1 /\ text[1].t = "json"
    THEN [ok |-> TRUE, value |-> text[1].v]
    ELSE [ok |-> FALSE, value |-> JsonArray]

\* Variant of IncTypeOf that keeps the label as the answer gives it.
IncTypeOfAsGiven(x) == x

\* IncidentType(x) with the ValueError fallback.
IncTypeOf(x) == IF x \in IncidentType THEN x ELSE FAILED_FILE

\* Variant of SeverityOf whose fallback is the default severity of the models.
SeverityOfDefault(x) == IF x \in IncidentSeverity THEN x ELSE ALL_GOOD

\* IncidentSeverity(x) with the ValueError fallback.
SeverityOf(x) == IF x \in IncidentSeverity THEN x ELSE ATTENTION_REQUIRED

\* Incident(...) of one entry; the model validation rejects a description of None.
IncidentValid(inc_data) == inc_data.description # None

IncidentOf(inc_data, source_id) ==
    [incident_type |-> IncTypeOf(inc_data.incident_type),
     severity |-> SeverityOf(inc_data.severity),
     description |-> inc_data.description,
     file_name |-> inc_data.file_name,
     source_id |-> source_id]

\* Variant of BuildIncidents that skips an entry that raises and goes on.
RECURSIVE BuildIncidentsSkip(_, _, _)
BuildIncidentsSkip(data, source_id, incidents) ==
    IF data = <<>> THEN [ok |-> TRUE, incidents |-> incidents]
    ELSE IF ~IncidentValid(Head(data))
         THEN BuildIncidentsSkip(Tail(data), source_id, incidents)
    ELSE BuildIncidentsSkip(Tail(data), source_id,
                            Append(incidents, IncidentOf(Head(data), source_id)))

\* The for loop over result.get("incidents", []): the list built so far, and
\* whether an entry raised.
RECURSIVE BuildIncidents(_, _, _)
BuildIncidents(data, source_id, incidents) ==
    IF data = <<>> THEN [ok |-> TRUE, incidents |-> incidents]
    ELSE IF ~IncidentValid(Head(data)) THEN [ok |-> FALSE, incidents |-> incidents]
    ELSE BuildIncidents(Tail(data), source_id,
                        Append(incidents, IncidentOf(Head(data), source_id)))

SourceReport(source_id, incidents, status, recommendations) ==
    [source_id |-> source_id, incidents |-> incidents, status |-> status,
     recommendations |-> recommendations]

\* The reports of the failure paths.
RateLimitReport(source_id) ==
    SourceReport(source_id, <<>>, ATTENTION_REQUIRED,
                 << <<"AI Analysis Failed (Rate Limit)">> >>)

ErrorReport(source_id, e) ==
    SourceReport(source_id, <<>>, ATTENTION_REQUIRED,
                 << <<"AI Analysis Failed:">> \o e >>)

\* Variant of ParseFailureReport that returns the empty report of the models.
ParseFailureReportDefault(agent, source_id) ==
    SourceReport(source_id, <<>>, ALL_GOOD, <<>>)

ParseFailureReport(agent, source_id) ==
    SourceReport(source_id, <<>>, ATTENTION_REQUIRED,
                 IF agent = "adk" THEN << <<"AI Analysis Failed (Parsing Error)">> >>
                 ELSE << <<"AI Analysis Failed">> >>)

\* Variant of StatusOf whose default is ATTENTION_REQUIRED.
StatusOfAttention(result) ==
    IF result.status = Absent THEN ATTENTION_REQUIRED ELSE result.status

\* IncidentSeverity(result.get("status", "ALL_GOOD"))
StatusOf(result) == IF result.status = Absent THEN ALL_GOOD ELSE result.status

\* Step 3 as a whole: the report, and whether the try block completed.
ParseResponse(agent, text, source_id) ==
    LET cleaned == IF agent = "adk" THEN CleanUp(text) ELSE text
        loaded  == JsonLoads(cleaned)
        result  == loaded.value
        built   == BuildIncidents(result.incidents, source_id, <<>>)
    IN  IF ~loaded.ok \/ result.kind # "object" \/ ~built.ok
           \/ StatusOf(result) \notin IncidentSeverity
        THEN [ok |-> FALSE, report |-> ParseFailureReport(agent, source_id)]
        ELSE [ok |-> TRUE,
              report |-> SourceReport(source_id, built.incidents, StatusOf(result),
                                      result.recommendations)]

\* The JSON object step 3 reads from the text (result), NoAnswer when there is none.
NoAnswer == [kind |-> "none", incidents |-> <<>>, status |-> Absent,
             recommendations |-> <<>>]

AnswerOf(agent, text) ==
    LET loaded == JsonLoads(IF agent = "adk" THEN CleanUp(text) ELSE text)
    IN  IF loaded.ok /\ loaded.value.kind = "object" THEN loaded.value ELSE NoAnswer

\* context = {"date": current_date}
MainContext == [date |-> date_str]

\* A local that is not bound yet.
Unbound == [unbound |-> TRUE]

\* d.get(key, default)
Get(d, key, default) == IF key \in DOMAIN d THEN d[key] ELSE default

\* Variant of UpdateContext that writes into the caller's dict (no copy).
UpdateContextShared(ctx, last_week, s) ==
    LET updated == [k \in DOMAIN ctx \cup {"last_week_files"} |->
                       IF k = "last_week_files" THEN Get(last_week, s, <<>>) ELSE ctx[k]]
    IN  [context |-> updated, source_context |-> updated]

\* source_context = context.copy()
\* source_context["last_week_files"] = last_week_files_data.get(source_id, [])
\* The caller's dict after the two statements, and the copy.
UpdateContext(ctx, last_week, s) ==
    [context |-> ctx,
     source_context |-> [k \in DOMAIN ctx \cup {"last_week_files"} |->
                            IF k = "last_week_files" THEN Get(last_week, s, <<>>)
                            ELSE ctx[k]]]

\* Session ids of the ADK agent.  An id is <<owner, second>>: the owner is the
\* source id the id is built from (0 for the session of __init__), and second
\* places the clock reading int(time.time()) the id is built from relative to
\* the clock: "now" for the current second, "past" for an earlier one.  The
\* clock is taken to advance by sleeping only, the timing under which two
\* readings are most likely to agree.

\* self.session_id = "incident_session", created in __init__.
IncidentSession == <<0, "init">>

\* The sessions of a new agent.
NewAgentSessions(agent) == IF agent = "adk" THEN {IncidentSession} ELSE {}

\* Variant of TempSessionId that uses the session of __init__.
TempSessionIdShared(s) == IncidentSession

\* temp_session_id = f"session_{source_id}_{int(time.time())}"
TempSessionId(s) == <<s, "now">>

\* session_service.create_session_sync(session_id=...), ADK agent only.
CreateSession(agent, held, s) ==
    IF agent = "adk" THEN held \cup {TempSessionId(s)} ELSE held

\* time.sleep of a second or more: every reading taken so far is of the past.
Sleep(held) == {<<id[1], IF id[2] = "now" THEN "past" ELSE id[2]>> : id \in held}

GlobalReport(date, reports) == [date |-> date, source_reports |-> reports]

\* main()'s report before generate_global_report has returned.
Unassigned == [date |-> "", source_reports |-> <<>>]

----------------------------------------------------------------------------
\* The run.

source_id == order[idx]

\* The number of analyses the execution makes room for: one per source and run.
\* A second run is explored for a single source (Init).
Analyses == IF again THEN 2 * Len(order) ELSE Len(order)

\* The variables of the input preparation while no method of it runs.
PrepIdle ==
    /\ method = "none"
    /\ path_exists = TRUE
    /\ raw_data = <<>>
    /\ content = <<>>
    /\ step = "idle"
    /\ pos = 0
    /\ item_pos = 0
    /\ parsed_files = <<>>
    /\ parsed_data = <<>>
    /\ upload_schedule = {}
    /\ volume_stats = {}

Init ==
    /\ PrepIdle
    /\ agent_type \in {"genai", "adk"}
    /\ again \in BOOLEAN
    /\ \E limit \in 1..(IF again THEN 1 ELSE NumSources) :
         \E inputs \in [1..limit -> UNION {SourceInputs(s) : s \in 1..NumSources}] :
            /\ \A s \in 1..limit : inputs[s] \in SourceInputs(s)
            /\ order = [i \in 1..limit |-> i]
            /\ files_data = [s \in 1..limit |-> inputs[s].files]
            /\ cvs = [s \in {x \in 1..limit : inputs[x].cv_found} |-> inputs[s].cv]
            /\ last_week_files_data =
                  [s \in {x \in 1..limit : inputs[x].last_week_found} |->
                      inputs[s].last_week]
    /\ pc = "loop"
    /\ idx = 1
    /\ attempt = 0
    /\ response_text = <<>>
    /\ exc = NoExc
    /\ delays = <<>>
    /\ returned = "none"
    /\ answer = NoAnswer
    /\ source_reports = <<>>
    /\ report = Unassigned
    /\ paced = 0
    /\ called = {}
    /\ previous = Unassigned
    /\ context = MainContext
    /\ source_context = Unbound
    /\ sessions = NewAgentSessions(agent_type)
    /\ in_flight = {}
    /\ idle = 0

\* What the locals of analyze_source hold outside a call.
NoAnalysis ==
    /\ attempt' = 0
    /\ response_text' = <<>>
    /\ exc' = NoExc
    /\ delays' = <<>>
    /\ returned' = "none"
    /\ answer' = NoAnswer

\* Variant of Finish that puts the report at the head of the list.
FinishPrepend(r, how) ==
    /\ source_reports' = <<r>> \o source_reports
    /\ returned' = how
    /\ in_flight' = in_flight \ {source_id}
    /\ idle' = 0
    /\ pc' = "pace"

\* analyze_source returns r through the return statement named how, and
\* generate_global_report appends it (lines 154-155).
Finish(r, how) ==
    /\ source_reports' = Append(source_reports, r)
    /\ returned' = how
    /\ in_flight' = in_flight \ {source_id}
    /\ idle' = 0
    /\ pc' = "pace"

\* for source_id, files in files_data.items(): cv = cvs.get(source_id);
\* if not cv: continue
Skip ==
    /\ pc = "loop"
    /\ idx <= Len(order)
    /\ ~HasCv(cvs, source_id)
    /\ idx' = idx + 1
    /\ UNCHANGED <<agent_type, order, files_data, cvs, pc, attempt, response_text, exc,
                   delays, returned, answer, source_reports, report, paced, called>>
    /\ UNCHANGED <<last_week_files_data, context, source_context, again, previous>>
    /\ UNCHANGED <<in_flight, idle>>
    /\ UNCHANGED sessions
    /\ UNCHANGED prep_vars

\* analyze_source is entered: the prompt is built and the retry loop starts.
Begin ==
    /\ pc = "loop"
    /\ idx <= Len(order)
    /\ HasCv(cvs, source_id)
    /\ LET updated == UpdateContext(context, last_week_files_data, source_id)
       IN  /\ context' = updated.context
           /\ source_context' = updated.source_context
    /\ pc' = "call"
    /\ NoAnalysis
    /\ UNCHANGED <<agent_type, order, files_data, cvs, idx, source_reports, report,
                   paced, called>>
    /\ UNCHANGED <<last_week_files_data, again, previous>>
    /\ in_flight' = in_flight \cup {source_id}
    /\ UNCHANGED idle
    /\ UNCHANGED sessions
    /\ UNCHANGED prep_vars

\* One attempt in which the external call raises e.  The ADK agent has added
\* to response_text the text of the events that came before.
AttemptRaises ==
    /\ pc = "call"
    /\ \E partial \in PartialTexts(agent_type, Analyses, attempt) :
         response_text' = response_text \o partial
    /\ \E e \in ServiceErrors :
         /\ exc' = e
         /\ IF IsThrottling(e)
            THEN IF attempt < max_retries - 1
                 THEN /\ delays' = Append(delays, BackoffDelay(attempt))
                      /\ attempt' = attempt + 1
                      /\ sessions' = Sleep(CreateSession(agent_type, sessions, source_id))
                      /\ UNCHANGED <<pc, returned, source_reports, in_flight, idle>>
                 ELSE /\ Finish(RateLimitReport(source_id), "rate_limit")
                      /\ sessions' = CreateSession(agent_type, sessions, source_id)
                      /\ UNCHANGED <<delays, attempt>>
            ELSE /\ Finish(ErrorReport(source_id, e), "error")
                 /\ sessions' = CreateSession(agent_type, sessions, source_id)
                 /\ UNCHANGED <<delays, attempt>>
    /\ called' = called \cup {source_id}
    /\ UNCHANGED <<agent_type, order, files_data, cvs, idx, answer, report, paced>>
    /\ UNCHANGED <<last_week_files_data, context, source_context, again, previous>>
    /\ UNCHANGED prep_vars

\* One attempt of the ADK agent in which the events carry no text: the agent
\* raises its own exception, which is not a throttling one.
AttemptNoText ==
    /\ pc = "call"
    /\ agent_type = "adk"
    /\ response_text = <<>>
    /\ exc' = ExcNoText
    /\ IF IsThrottling(ExcNoText)
       THEN FALSE
       ELSE Finish(ErrorReport(source_id, ExcNoText), "error")
    /\ called' = called \cup {source_id}
    /\ UNCHANGED <<agent_type, order, files_data, cvs, idx, attempt, response_text,
                   delays, answer, report, paced>>
    /\ UNCHANGED <<last_week_files_data, context, source_context, again, previous>>
    /\ sessions' = CreateSession(agent_type, sessions, source_id)
    /\ UNCHANGED prep_vars

\* One attempt in which the external call answers with a text, which step 3
\* then parses.  The direct agent takes any text, the ADK agent a non-empty one.
AttemptAnswers ==
    /\ pc = "call"
    /\ \E text \in ResponseTexts(Analyses, attempt) :
         LET all == IF agent_type = "adk" THEN response_text \o text ELSE text
             parsed == ParseResponse(agent_type, all, source_id)
         IN  /\ agent_type = "adk" => all # <<>>
             /\ response_text' = all
             /\ answer' = AnswerOf(agent_type, all)
             /\ Finish(parsed.report, IF parsed.ok THEN "parsed" ELSE "parse_error")
    /\ exc' = NoExc
    /\ called' = called \cup {source_id}
    /\ UNCHANGED <<agent_type, order, files_data, cvs, idx, attempt, delays,
                   report, paced>>
    /\ UNCHANGED <<last_week_files_data, context, source_context, again, previous>>
    /\ sessions' = CreateSession(agent_type, sessions, source_id)
    /\ UNCHANGED prep_vars

\* Variant of Pace that goes on to the next source without sleeping.
PaceNoSleep ==
    /\ pc = "pace"
    /\ UNCHANGED <<paced, idle>>
    /\ idx' = idx + 1
    /\ pc' = "loop"
    /\ NoAnalysis
    /\ UNCHANGED <<agent_type, order, files_data, cvs, source_reports, report, called>>
    /\ UNCHANGED <<last_week_files_data, context, source_context, again, previous>>
    /\ UNCHANGED in_flight
    /\ sessions' = Sleep(sessions)
    /\ UNCHANGED prep_vars

\* time.sleep(4) after the report was appended; the loop moves on.
Pace ==
    /\ pc = "pace"
    /\ paced' = paced + 1
    /\ idle' = idle + PacingDelay
    /\ idx' = idx + 1
    /\ pc' = "loop"
    /\ NoAnalysis
    /\ UNCHANGED <<agent_type, order, files_data, cvs, source_reports, report, called>>
    /\ UNCHANGED <<last_week_files_data, context, source_context, again, previous>>
    /\ UNCHANGED in_flight
    /\ sessions' = Sleep(sessions)
    /\ UNCHANGED prep_vars

\* return GlobalReport(date=date_str, source_reports=source_reports)
Return ==
    /\ pc = "loop"
    /\ idx > Len(order)
    /\ report' = GlobalReport(date_str, source_reports)
    /\ pc' = "done"
    /\ UNCHANGED <<agent_type, order, files_data, cvs, idx, attempt, response_text, exc,
                   delays, returned, answer, source_reports, paced, called>>
    /\ UNCHANGED <<last_week_files_data, context, source_context, again, previous>>
    /\ UNCHANGED <<in_flight, idle>>
    /\ UNCHANGED sessions
    /\ UNCHANGED prep_vars

\* The run is interrupted (KeyboardInterrupt, or any error outside the try
\* blocks): nothing catches it, the frames of analyze_source and
\* generate_global_report are unwound and main() ends without a report.
Abort ==
    /\ pc \in {"loop", "call", "pace"}
    /\ pc' = "aborted"
    /\ source_reports' = <<>>
    /\ NoAnalysis
    /\ source_context' = Unbound
    /\ UNCHANGED <<agent_type, order, files_data, cvs, idx, report, paced, called>>
    /\ UNCHANGED <<last_week_files_data, context, again, previous>>
    /\ in_flight' = {}
    /\ UNCHANGED idle
    /\ UNCHANGED sessions
    /\ UNCHANGED prep_vars

\* The program is started again on the same files and profiles: a new process,
\* whose variables start as they did, while the report of the run before is
\* kept for comparison.
Rerun ==
    /\ pc = "done"
    /\ again
    /\ previous = Unassigned
    /\ previous' = report
    /\ pc' = "loop"
    /\ idx' = 1
    /\ source_reports' = <<>>
    /\ report' = Unassigned
    /\ paced' = 0
    /\ called' = {}
    /\ context' = MainContext
    /\ source_context' = Unbound
    /\ UNCHANGED <<agent_type, order, files_data, cvs, attempt, response_text, exc,
                   delays, returned, answer, again, last_week_files_data>>
    /\ in_flight' = {}
    /\ idle' = 0
    /\ sessions' = NewAgentSessions(agent_type)
    /\ UNCHANGED prep_vars

Next ==
    \/ Skip
    \/ Begin
    \/ AttemptRaises
    \/ AttemptNoText
    \/ AttemptAnswers
    \/ Pace
    \/ Return
    \/ Abort
    \/ Rerun

Spec == Init /\ [][Next]_vars

----------------------------------------------------------------------------
\* Input preparation (src/src/input_preparer.py): the two loaders of the
\* upload records and the parser of a source profile.

\* Items of files.json.  Two that validate, one without the required
\* uploaded_at, and one that is not a JSON object.
ItemA == [kind |-> "object", filename |-> "a.csv", rows |-> 10,
          uploaded_at |-> "2025-09-08T15:02:00Z"]

ItemB == [kind |-> "object", filename |-> "b.csv", rows |-> 0,
          uploaded_at |-> "2025-09-08T16:10:00Z"]

ItemNoDate == [kind |-> "object", filename |-> "c.csv", rows |-> 5, uploaded_at |-> Absent]

ItemNotObject == [kind |-> "string", filename |-> Absent, rows |-> 0, uploaded_at |-> Absent]

RawItems == {ItemA, ItemB, ItemNoDate, ItemNotObject}

\* FileData(**file_item) raises for an item that cannot be unpacked as keyword
\* arguments or that lacks a required field.
Validates(file_item) ==
    /\ file_item.kind = "object"
    /\ file_item.filename # Absent
    /\ file_item.uploaded_at # Absent

\* The FileData of an item that validates; the optional fields default to None.
FileData(file_item) ==
    [filename |-> file_item.filename, rows |-> file_item.rows,
     uploaded_at |-> file_item.uploaded_at, file_size |-> None,
     status_message |-> None]

\* Variant of ParseItem whose handler starts the list of the source afresh.
ParseItemReset(files, file_item) ==
    IF Validates(file_item) THEN Append(files, FileData(file_item)) ELSE <<>>

\* try: parsed_files.append(FileData(**file_item)) except Exception: print(...)
ParseItem(files, file_item) ==
    IF Validates(file_item) THEN Append(files, FileData(file_item)) ELSE files

\* d[key] = value
Put(d, key, value) == [x \in DOMAIN d \cup {key} |-> IF x = key THEN value ELSE d[x]]

\* A files.json of n sources: the items flat, cut into the lists of the sources.
Split(flat, n, cuts) ==
    [s \in 1..n |-> SubSeq(flat, (IF s = 1 THEN 0 ELSE cuts[s - 1]) + 1,
                           IF s = n THEN Len(flat) ELSE cuts[s])]

\* The places at which a list of len items is cut into n lists.
Cuts(n, len) ==
    {c \in [1..(n - 1) -> 0..len] : \A i \in 1..(n - 2) : c[i] <= c[i + 1]}

\* The files explored: up to NumSources sources with up to MaxItems items in all.
RawDatas ==
    UNION {UNION {{Split(flat, n, cuts) : cuts \in Cuts(n, Len(flat))} :
                     n \in 1..NumSources} :
              flat \in SeqsUpTo(RawItems, MaxItems)}

\* days = ["Mon", "Tue", "Wed", "Thu", "Fri", "Sat", "Sun"]
days == <<"Mon", "Tue", "Wed", "Thu", "Fri", "Sat", "Sun">>

\* A number as the profile writes it: its groups of digits between the
\* thousands separators, "10,762" being <<10, 762>>.
\* float(text.replace(",", ""))
RECURSIVE Float(_)
Float(groups) ==
    IF groups = <<>> THEN 0
    ELSE Float(SubSeq(groups, 1, Len(groups) - 1)) * 1000 + groups[Len(groups)]

\* The second cell of a per-day table row: the time of the upload schedule
\* table, the row statistics of the day-of-week summary (a set of
\* <<label, number>>), or something else.
CellTime == [kind |-> "time", time |-> "15:00", stats |-> {}]

CellStats == [kind |-> "stats", time |-> Absent,
              stats |-> {<<"Min", <<1>>>>, <<"Max", <<10, 762>>>>,
                         <<"Mean", <<5, 953>>>>, <<"Median", <<5, 477>>>>}]

CellMeanOnly == [kind |-> "stats", time |-> Absent,
                 stats |-> {<<"Mean", <<12>>>>, <<"Median", <<9>>>>}]

CellOther == [kind |-> "text", time |-> Absent, stats |-> {}]

Cells == {CellTime, CellStats, CellMeanOnly, CellOther}

Rows == [day : {"Mon", "Tue"}, cell : Cells]

\* re.search: the first row of the day whose second cell is wanted, 0 if none.
RECURSIVE Search(_, _, _, _)
Search(text, day, kinds, from) ==
    IF from > Len(text) THEN 0
    ELSE IF text[from].day = day /\ text[from].cell.kind \in kinds THEN from
    ELSE Search(text, day, kinds, from + 1)

\* day_regex matches a row of the day whose second cell is an HH:MM time.
DayRegexKinds == {"time"}

\* row_regex matches a row of the day whatever its second cell holds.
RowRegexKinds == {"time", "stats", "text"}

\* stats["mean"], stats["min"], stats["max"] of a cell, each when its label matches.
StatsOf(cell) ==
    {<<"mean", Float(e[2])>> : e \in {x \in cell.stats : x[1] = "Mean"}}
    \cup {<<"min", Float(e[2])>> : e \in {x \in cell.stats : x[1] = "Min"}}
    \cup {<<"max", Float(e[2])>> : e \in {x \in cell.stats : x[1] = "Max"}}

\* The variables of the run while the input preparation is looked at alone.
RunIdle ==
    /\ agent_type = "genai"
    /\ order = <<>>
    /\ files_data = <<>>
    /\ cvs = <<>>
    /\ last_week_files_data = <<>>
    /\ pc = "prepare"
    /\ idx = 1
    /\ attempt = 0
    /\ response_text = <<>>
    /\ exc = NoExc
    /\ delays = <<>>
    /\ returned = "none"
    /\ answer = NoAnswer
    /\ source_reports = <<>>
    /\ report = Unassigned
    /\ paced = 0
    /\ called = {}
    /\ previous = Unassigned
    /\ context = MainContext
    /\ source_context = Unbound
    /\ sessions = {}
    /\ in_flight = {}
    /\ idle = 0
    /\ again = FALSE

InitPrep ==
    /\ RunIdle
    /\ method \in {"load_files_data", "load_last_weekday_files", "parse_cv"}
    /\ path_exists \in BOOLEAN
    /\ raw_data \in (IF path_exists /\ method # "parse_cv" THEN RawDatas ELSE {<<>>})
    /\ content \in (IF path_exists /\ method = "parse_cv" THEN SeqsUpTo(Rows, MaxRows)
                    ELSE {<<>>})
    /\ step = "start"
    /\ pos = 0
    /\ item_pos = 0
    /\ parsed_files = <<>>
    /\ parsed_data = <<>>
    /\ upload_schedule = {}
    /\ volume_stats = {}

\* if not os.path.exists(...): load_files_data raises FileNotFoundError,
\* load_last_weekday_files returns {}, parse_cv returns None.
FileMissing ==
    /\ step = "start"
    /\ ~path_exists
    /\ step' = (IF method = "load_files_data" THEN "raised"
                ELSE IF method = "parse_cv" THEN "returned_none" ELSE "returned")
    /\ UNCHANGED <<method, path_exists, raw_data, content, pos, item_pos, parsed_files,
                   parsed_data, upload_schedule, volume_stats>>
    /\ UNCHANGED run_vars

\* raw_data = json.load(f); parsed_data = {}
OpenRaw ==
    /\ step = "start"
    /\ path_exists
    /\ method \in {"load_files_data", "load_last_weekday_files"}
    /\ parsed_data' = <<>>
    /\ pos' = 1
    /\ step' = "source"
    /\ UNCHANGED <<method, path_exists, raw_data, content, item_pos, parsed_files,
                   upload_schedule, volume_stats>>
    /\ UNCHANGED run_vars

\* for source_id, files in raw_data.items(): parsed_files = []
NextSource ==
    /\ step = "source"
    /\ pos <= Len(raw_data)
    /\ parsed_files' = <<>>
    /\ item_pos' = 1
    /\ step' = "items"
    /\ UNCHANGED <<method, path_exists, raw_data, content, pos, parsed_data,
                   upload_schedule, volume_stats>>
    /\ UNCHANGED run_vars

\* for file_item in files: try ... except ...
LoadItem ==
    /\ step = "items"
    /\ item_pos <= Len(raw_data[pos])
    /\ parsed_files' = ParseItem(parsed_files, raw_data[pos][item_pos])
    /\ item_pos' = item_pos + 1
    /\ UNCHANGED <<method, path_exists, raw_data, content, step, pos, parsed_data,
                   upload_schedule, volume_stats>>
    /\ UNCHANGED run_vars

\* parsed_data[source_id] = parsed_files
StoreSource ==
    /\ step = "items"
    /\ item_pos > Len(raw_data[pos])
    /\ parsed_data' = Put(parsed_data, pos, parsed_files)
    /\ pos' = pos + 1
    /\ step' = "source"
    /\ UNCHANGED <<method, path_exists, raw_data, content, item_pos, parsed_files,
                   upload_schedule, volume_stats>>
    /\ UNCHANGED run_vars

\* return parsed_data
ReturnLoaded ==
    /\ step = "source"
    /\ pos > Len(raw_data)
    /\ step' = "returned"
    /\ UNCHANGED <<method, path_exists, raw_data, content, pos, item_pos, parsed_files,
                   parsed_data, upload_schedule, volume_stats>>
    /\ UNCHANGED run_vars

\* content = f.read(); upload_schedule = {}
ReadCv ==
    /\ step = "start"
    /\ path_exists
    /\ method = "parse_cv"
    /\ upload_schedule' = {}
    /\ pos' = 1
    /\ step' = "schedule"
    /\ UNCHANGED <<method, path_exists, raw_data, content, item_pos, parsed_files,
                   parsed_data, volume_stats>>
    /\ UNCHANGED run_vars

\* for day in days: match = re.search(day_regex, content);
\* if match: upload_schedule[day] = match.group(1).  After the last day:
\* volume_stats = {}.
ScheduleDay ==
    /\ step = "schedule"
    /\ LET day == days[pos]
           match == Search(content, day, DayRegexKinds, 1)
       IN  upload_schedule' =
               IF match # 0 THEN upload_schedule \cup {<<day, content[match].cell.time>>}
               ELSE upload_schedule
    /\ IF pos < Len(days)
       THEN pos' = pos + 1 /\ UNCHANGED step
       ELSE pos' = 1 /\ step' = "stats"
    /\ UNCHANGED <<method, path_exists, raw_data, content, item_pos, parsed_files,
                   parsed_data, volume_stats>>
    /\ UNCHANGED run_vars

\* for day in days: match = re.search(row_regex, content);
\* if match: stats = {...}; volume_stats[day] = stats.  After the last day:
\* return SourceCV(...).
StatsDay ==
    /\ step = "stats"
    /\ LET day == days[pos]
           match == Search(content, day, RowRegexKinds, 1)
       IN  volume_stats' =
               IF match # 0 THEN volume_stats \cup {<<day, StatsOf(content[match].cell)>>}
               ELSE volume_stats
    /\ IF pos < Len(days)
       THEN pos' = pos + 1 /\ UNCHANGED step
       ELSE pos' = pos /\ step' = "returned"
    /\ UNCHANGED <<method, path_exists, raw_data, content, item_pos, parsed_files,
                   parsed_data, upload_schedule>>
    /\ UNCHANGED run_vars

NextPrep ==
    \/ FileMissing
    \/ OpenRaw
    \/ NextSource
    \/ LoadItem
    \/ StoreSource
    \/ ReturnLoaded
    \/ ReadCv
    \/ ScheduleDay
    \/ StatsDay

SpecPrep == InitPrep /\ [][NextPrep]_vars

----------------------------------------------------------------------------
\* Properties.

Last(seq) == seq[Len(seq)]

\* The JSON objects a text carries.
JsonObjectsIn(text) ==
    {text[i].v : i \in {j \in 1..Len(text) : text[j].t = "json" /\ text[j].v.kind = "object"}}

\* An object that cannot be read as incidents: an entry without a description,
\* or a status that is no severity.
Uninterpretable(o) ==
    \/ \E i \in 1..Len(o.incidents) : o.incidents[i].description = None
    \/ o.status \notin {"URGENT", "ATTENTION_REQUIRED", "ALL_GOOD", Absent}

\* The last attempt of the current analysis failed: it raised, or it answered
\* with nothing that can be read as incidents (an empty text included).
CallFailed ==
    \/ exc # NoExc
    \/ \A o \in JsonObjectsIn(response_text) : Uninterpretable(o)

\* The sources of order that have a profile, in the order of files_data.
RECURSIVE ProfiledSources(_)
ProfiledSources(seq) ==
    IF seq = <<>> THEN <<>>
    ELSE IF Head(seq) \in DOMAIN cvs THEN <<Head(seq)>> \o ProfiledSources(Tail(seq))
    ELSE ProfiledSources(Tail(seq))

SourceIds(reports) == [i \in 1..Len(reports) |-> reports[i].source_id]

\* C1: per-source failure isolation.  Whenever analyze_source has returned
\* after a failed external call (throttled on every attempt, another
\* exception, an empty answer, an answer that cannot be read as incidents),
\* it has returned a report for that source with status ATTENTION_REQUIRED,
\* no incidents and at least one recommendation; and a finished run holds a
\* report for every source that has a profile, whatever happened to the
\* sources before it.
C1_FailureIsolation ==
    /\ pc = "pace" =>
          /\ source_reports # <<>>
          /\ Last(source_reports).source_id = source_id
          /\ CallFailed =>
                /\ Last(source_reports).status = "ATTENTION_REQUIRED"
                /\ Last(source_reports).incidents = <<>>
                /\ Len(Last(source_reports).recommendations) >= 1
    /\ pc = "done" => SourceIds(report.source_reports) = ProfiledSources(order)

\* C1 witness: a finished run whose first source was throttled on every attempt
\* and whose second source was analysed all the same.
C1_Witness ==
    /\ pc = "done"
    /\ Len(report.source_reports) = 2
    /\ report.source_reports[1].recommendations = << <<"AI Analysis Failed (Rate Limit)">> >>
    /\ report.source_reports[1].status = "ATTENTION_REQUIRED"
    /\ report.source_reports[2].status = "URGENT"

UrgentCount(incidents) ==
    Cardinality({i \in 1..Len(incidents) : incidents[i].severity = "URGENT"})

\* C2: every report whose incidents list holds more than one URGENT incident,
\* or more than 3 incidents, has status URGENT (the status is recomputed from
\* the incidents list).
C2_AggregateUrgent ==
    \A i \in 1..Len(source_reports) :
        (UrgentCount(source_reports[i].incidents) > 1 \/ Len(source_reports[i].incidents) > 3)
            => source_reports[i].status = "URGENT"

TotalOutage(s) ==
    /\ files_data[s] = <<>>
    /\ s \in DOMAIN cvs
    /\ \E e \in cvs[s].upload_schedule : e[1] = RunWeekday

\* C4: in the global report every source with zero records and a schedule for
\* the run weekday is represented, with status URGENT.
C4_TotalOutageUrgent ==
    pc = "done" =>
        \A k \in 1..Len(order) :
            TotalOutage(order[k]) =>
                \E i \in 1..Len(report.source_reports) :
                    /\ report.source_reports[i].source_id = order[k]
                    /\ report.source_reports[i].status = "URGENT"

\* C5 as stated: no incident of any report has severity ALL_GOOD.
C5_NoAllGoodIncident ==
    \A i \in 1..Len(source_reports) :
        \A j \in 1..Len(source_reports[i].incidents) :
            source_reports[i].incidents[j].severity # "ALL_GOOD"

\* C5 as amended: the severity of an incident is a known severity; it is the
\* severity of the answer's entry when that is a known one and
\* ATTENTION_REQUIRED otherwise, so it is ALL_GOOD exactly when the answer's
\* entry says ALL_GOOD.
C5_SeverityAsAnswered ==
    (pc = "pace" /\ returned = "parsed") =>
        /\ Len(Last(source_reports).incidents) = Len(answer.incidents)
        /\ \A j \in 1..Len(answer.incidents) :
              LET given == answer.incidents[j].severity
                  kept  == Last(source_reports).incidents[j].severity
              IN  /\ kept \in {"URGENT", "ATTENTION_REQUIRED", "ALL_GOOD"}
                  /\ given \in {"URGENT", "ATTENTION_REQUIRED", "ALL_GOOD"} => kept = given
                  /\ given \notin {"URGENT", "ATTENTION_REQUIRED", "ALL_GOOD"}
                        => kept = "ATTENTION_REQUIRED"
                  /\ kept = "ALL_GOOD" <=> given = "ALL_GOOD"

\* C5 witness: a report that keeps an ALL_GOOD incident next to one whose
\* unknown severity became ATTENTION_REQUIRED.
C5_Witness ==
    /\ pc = "pace"
    /\ returned = "parsed"
    /\ Len(answer.incidents) = 2
    /\ answer.incidents[1].severity = "ALL_GOOD"
    /\ answer.incidents[2].severity = "CRITICAL"
    /\ Last(source_reports).incidents[1].severity = "ALL_GOOD"
    /\ Last(source_reports).incidents[2].severity = "ATTENTION_REQUIRED"

\* C6: a source without a profile is skipped entirely: the external service is
\* never called for it, no pacing delay is spent on it (there are as many
\* pacing sleeps as reports of sources left behind), and no report carries its
\* id; in a finished run every source with a profile has exactly one report.
C6_NoProfileSkipped ==
    /\ \A s \in called : s \in DOMAIN cvs
    /\ \A i \in 1..Len(source_reports) : source_reports[i].source_id \in DOMAIN cvs
    /\ pc \in {"loop", "call", "done"} => paced = Len(ProfiledSources(SubSeq(order, 1, idx - 1)))
    /\ pc = "pace" => paced = Len(ProfiledSources(SubSeq(order, 1, idx))) - 1
    /\ pc = "done" =>
          /\ \A i \in 1..Len(report.source_reports) :
                report.source_reports[i].source_id \in DOMAIN cvs
          /\ \A s \in DOMAIN cvs :
                Cardinality({i \in 1..Len(report.source_reports) :
                                report.source_reports[i].source_id = s}) = 1

\* C6 witness: a finished run over a source without a profile followed by a
\* source with one: one call, one report, one pacing sleep.
C6_Witness ==
    /\ pc = "done"
    /\ Len(order) = 2
    /\ DOMAIN cvs = {2}
    /\ called = {2}
    /\ paced = 1
    /\ SourceIds(report.source_reports) = <<2>>

\* The throttling errors.
Throttled(e) == e \in {<<"429", "Too Many Requests">>, <<"Resource exhausted">>}

\* C7: retry discipline.  At most 5 attempts (attempt stays within 0..4); the
\* delays slept before the retries are 10, 20, 40, 80; a further attempt is
\* made only after a throttling error, so a non-throttling error ends the call
\* with the error report and no retry; and when the fifth attempt is throttled
\* the call returns the rate-limit report with no sleep beyond those four.
C7_RetryDiscipline ==
    /\ attempt \in 0..4
    /\ delays = SubSeq(<<10, 20, 40, 80>>, 1, attempt)
    /\ pc = "call" => (IF attempt = 0 THEN exc = NoExc ELSE Throttled(exc))
    /\ (pc = "pace" /\ exc # NoExc /\ ~Throttled(exc)) =>
          /\ returned = "error"
          /\ Last(source_reports).status = "ATTENTION_REQUIRED"
    /\ (pc = "pace" /\ Throttled(exc)) =>
          /\ attempt = 4
          /\ delays = <<10, 20, 40, 80>>
          /\ returned = "rate_limit"
          /\ Last(source_reports).recommendations = << <<"AI Analysis Failed (Rate Limit)">> >>
    /\ returned = "rate_limit" => (Throttled(exc) /\ attempt = 4)

\* C7 witness: the call has returned the rate-limit report after five throttled
\* attempts and the four delays.
C7_Witness ==
    /\ pc = "pace"
    /\ returned = "rate_limit"
    /\ attempt = 4
    /\ delays = <<10, 20, 40, 80>>

\* C8: generate_global_report only packages.  Within a run a report, once
\* appended, stays where it is and as it is; each analysis appends exactly one report, that of
\* the source analysed; the returned GlobalReport carries the list as it is and
\* the date passed in; its reports follow the order of files_data restricted
\* to the sources with a profile.
C8_OrderPreserved ==
    /\ [][(pc' # "aborted" /\ pc # "done") =>
            /\ Len(source_reports') >= Len(source_reports)
            /\ SubSeq(source_reports', 1, Len(source_reports)) = source_reports
            /\ (pc = "call" /\ pc' = "pace") =>
                  /\ Len(source_reports') = Len(source_reports) + 1
                  /\ Last(source_reports').source_id = source_id
            /\ ~(pc = "call" /\ pc' = "pace") => source_reports' = source_reports
            /\ pc' = "done" =>
                  report' = [date |-> "2025-09-08", source_reports |-> source_reports]]_vars
    /\ [](pc = "done" => SourceIds(report.source_reports) = ProfiledSources(order))

\* C8 witness: a finished run with two reports, in the order of files_data.
C8_Witness ==
    /\ pc = "done"
    /\ report.date = "2025-09-08"
    /\ SourceIds(report.source_reports) = <<1, 2>>
    /\ report.source_reports[1].status = "ALL_GOOD"
    /\ report.source_reports[2].status = "URGENT"

\* C9: when the run is aborted, the reports produced so far are available to
\* the caller as a partial GlobalReport.
C9_PartialReportOnAbort ==
    [][(pc' = "aborted") => report'.source_reports = source_reports]_vars

\* C10: no partial incident list.  The report of an analysis carries one
\* incident for every entry of the answer's incidents array, in the same order,
\* or it is a failure report: no incidents, status ATTENTION_REQUIRED.
C10_NoPartialIncidents ==
    pc = "pace" =>
        \/ /\ Len(Last(source_reports).incidents) = Len(answer.incidents)
           /\ \A j \in 1..Len(answer.incidents) :
                 /\ Last(source_reports).incidents[j].description
                        = answer.incidents[j].description
                 /\ Last(source_reports).incidents[j].file_name
                        = answer.incidents[j].file_name
        \/ /\ Last(source_reports).incidents = <<>>
           /\ Last(source_reports).status = "ATTENTION_REQUIRED"

\* C10 witness: an answer whose second entry lacks a description gives a failure
\* report without the first entry.
C10_Witness ==
    /\ pc = "pace"
    /\ returned = "parse_error"
    /\ Len(answer.incidents) = 2
    /\ answer.incidents[1].description # None
    /\ answer.incidents[2].description = None
    /\ Last(source_reports).incidents = <<>>
    /\ Last(source_reports).status = "ATTENTION_REQUIRED"

\* What C11 compares: per source, the incident list and the aggregate status.
Findings(r) ==
    [i \in 1..Len(r.source_reports) |->
        [source_id |-> r.source_reports[i].source_id,
         incidents |-> r.source_reports[i].incidents,
         status |-> r.source_reports[i].status]]

\* C11: idempotence.  A second run on the same profiles, records and run date
\* ends with the same incident lists and the same statuses as the first.
C11_Idempotent ==
    (pc = "done" /\ previous # Unassigned) => Findings(report) = Findings(previous)

\* The last-week records the current analysis was given.
GivenLastWeek == Get(source_context, "last_week_files", <<>>)

\* C13: last-week records are supplied per source.  The analysis of a source
\* is given exactly that source's entry of last_week_files_data, or the empty
\* sequence when there is no entry, and so never a record of another source;
\* and a run of generate_global_report changes none of context, files_data,
\* last_week_files_data and cvs.
C13_LastWeekPerSource ==
    /\ [](pc \in {"call", "pace"} =>
            /\ "last_week_files" \in DOMAIN source_context
            /\ source_id \in DOMAIN last_week_files_data
                  => GivenLastWeek = last_week_files_data[source_id]
            /\ source_id \notin DOMAIN last_week_files_data => GivenLastWeek = <<>>
            /\ \A i \in 1..Len(GivenLastWeek) :
                  GivenLastWeek[i] = LastWeekRecord(source_id))
    /\ [][/\ context' = context
          /\ files_data' = files_data
          /\ last_week_files_data' = last_week_files_data
          /\ cvs' = cvs]_vars

\* C13 witness: the second source has no last-week entry while the first has
\* one, and its analysis is given the empty sequence.
C13_Witness ==
    /\ pc = "call"
    /\ idx = 2
    /\ 1 \in DOMAIN last_week_files_data
    /\ 2 \notin DOMAIN last_week_files_data
    /\ last_week_files_data[1] # <<>>
    /\ "last_week_files" \in DOMAIN source_context
    /\ source_context.last_week_files = <<>>
    /\ "last_week_files" \notin DOMAIN context

\* Two records of the batch have the same file name.
SameNameTwice(files) ==
    \E i, j \in 1..Len(files) : i < j /\ files[i].filename = files[j].filename

DuplicatedFileCount(incidents) ==
    Cardinality({j \in 1..Len(incidents) :
                    incidents[j].incident_type = "Duplicated File"})

\* C16: the report of a source whose records of the day hold the same file
\* name twice (and show nothing else) has exactly one Duplicated File
\* incident, for that file name, and status ATTENTION_REQUIRED.
C16_DuplicateReported ==
    (pc = "pace" /\ SameNameTwice(files_data[source_id])) =>
        /\ DuplicatedFileCount(Last(source_reports).incidents) = 1
        /\ \A j \in 1..Len(Last(source_reports).incidents) :
              Last(source_reports).incidents[j].incident_type = "Duplicated File"
                  => Last(source_reports).incidents[j].file_name = "f1.csv"
        /\ Last(source_reports).status = "ATTENTION_REQUIRED"

\* C17: calls to the external service are serialized and paced.  At most one
\* analysis is in flight, and it is that of the current source; an analysis
\* starts only when every analysis started before has returned its report;
\* and between the return of an analysis and the start of the next lies the
\* pacing sleep of 4 seconds, once for each analysed source.
C17_SerializedAndPaced ==
    /\ Cardinality(in_flight) <= 1
    /\ pc = "call" =>
          /\ in_flight = {source_id}
          /\ paced = Len(source_reports)
          /\ \A s \in called \ {source_id} :
                \E i \in 1..Len(source_reports) : source_reports[i].source_id = s
          /\ source_reports # <<>> => idle = 4
    /\ pc # "call" => in_flight = {}
    /\ pc = "pace" => (idle = 0 /\ paced = Len(source_reports) - 1)
    /\ pc \in {"loop", "done"} => paced = Len(source_reports)

\* C17 witness: the analysis of the second source is in flight, after the
\* first has returned its report and the 4 seconds have passed.
C17_Witness ==
    /\ pc = "call"
    /\ idx = 2
    /\ in_flight = {2}
    /\ called = {1, 2}
    /\ Len(source_reports) = 1
    /\ source_reports[1].source_id = 1
    /\ paced = 1
    /\ idle = 4

\* C18: in the ADK agent the text that is parsed is the text of the successful
\* attempt alone.  The parsed text is what response_text held when that
\* attempt began followed by what the attempt received, so the claim says
\* that an attempt whose text goes to the parser begins with no text held
\* from an earlier attempt.
C18_NoCarriedText ==
    [][(/\ agent_type = "adk"
        /\ pc = "call"
        /\ pc' = "pace"
        /\ returned' \in {"parsed", "parse_error"}) => response_text = <<>>]_vars

KnownTypes ==
    {"Missing File", "Duplicated File", "Unexpected Empty File",
     "Unexpected Volume Variation", "File Upload After Schedule",
     "Upload of Previous File", "Failed File"}

KnownSeverities == {"URGENT", "ATTENTION_REQUIRED", "ALL_GOOD"}

\* C19: mismatching fields of the answer.  In the report of a parsed answer
\* every entry of the answer is kept, at its place: with its type when that is
\* a known type and with Failed File otherwise, with its severity when that is
\* a known severity and with ATTENTION_REQUIRED otherwise, with its
\* description and file name, and with the id of the analysed source; the
\* status of the report is the one the answer gives, whatever the entries
\* are.  An answer whose status field is no known severity gives a failure
\* report: ATTENTION_REQUIRED, no incidents.
C19_FieldMismatches ==
    pc = "pace" =>
        /\ returned = "parsed" =>
              /\ Len(Last(source_reports).incidents) = Len(answer.incidents)
              /\ \A j \in 1..Len(answer.incidents) :
                    LET given == answer.incidents[j]
                        kept  == Last(source_reports).incidents[j]
                    IN  /\ kept.incident_type =
                              (IF given.incident_type \in KnownTypes
                               THEN given.incident_type ELSE "Failed File")
                        /\ kept.severity =
                              (IF given.severity \in KnownSeverities
                               THEN given.severity ELSE "ATTENTION_REQUIRED")
                        /\ kept.description = given.description
                        /\ kept.file_name = given.file_name
                        /\ kept.source_id = source_id
              /\ Last(source_reports).status =
                    (IF answer.status = Absent THEN "ALL_GOOD" ELSE answer.status)
        /\ (answer.kind = "object" /\ answer.status \notin KnownSeverities \cup {Absent}) =>
              /\ returned = "parse_error"
              /\ Last(source_reports).status = "ATTENTION_REQUIRED"
              /\ Last(source_reports).incidents = <<>>

\* C19 witness: an entry with unknown labels is kept as a Failed File incident
\* of severity ATTENTION_REQUIRED next to an untouched URGENT one, under the
\* status the answer gave.
C19_Witness ==
    /\ pc = "pace"
    /\ returned = "parsed"
    /\ Len(answer.incidents) = 2
    /\ answer.status = "ALL_GOOD"
    /\ answer.incidents[1].incident_type = "Schema Drift"
    /\ answer.incidents[1].severity = "CRITICAL"
    /\ answer.incidents[2].incident_type = "Missing File"
    /\ Last(source_reports).incidents[1].incident_type = "Failed File"
    /\ Last(source_reports).incidents[1].severity = "ATTENTION_REQUIRED"
    /\ Last(source_reports).incidents[1].source_id = source_id
    /\ Last(source_reports).incidents[2].incident_type = "Missing File"
    /\ Last(source_reports).incidents[2].severity = "URGENT"
    /\ Last(source_reports).status = "ALL_GOOD"

\* A step in which an attempt of the ADK agent runs: it creates its session
\* and sends the request in it.
AdkAttempt ==
    /\ agent_type = "adk"
    /\ pc = "call"
    /\ (attempt' # attempt \/ pc' = "pace")

\* C15: no conversational state across sources.  Every attempt of the ADK
\* agent sends its request in a session it has just created under an id the
\* session service did not hold: not the session of __init__, not one of
\* another source, not one of an earlier attempt; and sessions are created by
\* attempts only.  (Sleep is applied to both sides of a comparison across a
\* step because the step may sleep.)
C15_FreshSession ==
    [][/\ AdkAttempt =>
            /\ TempSessionId(source_id) \notin sessions
            /\ TempSessionId(source_id)[1] = source_id
            /\ Sleep({TempSessionId(source_id)}) \subseteq Sleep(sessions')
       /\ (~AdkAttempt /\ pc # "done") => Sleep(sessions') \subseteq Sleep(sessions)]_vars

\* C15 witness: the third attempt for the second source is about to run, and
\* the service holds the sessions of the first source and of the two earlier
\* attempts, all created in earlier seconds.
C15_Witness ==
    /\ agent_type = "adk"
    /\ pc = "call"
    /\ idx = 2
    /\ attempt = 2
    /\ called = {1, 2}
    /\ sessions = {<<0, "init">>, <<1, "past">>, <<2, "past">>}

\* The items of a list that pass the validation of FileData, by position.
ValidPositions(items) ==
    {i \in 1..Len(items) :
        /\ items[i].kind = "object"
        /\ items[i].filename # Absent
        /\ items[i].uploaded_at # Absent}

\* The position of the j-th item that passes.
NthValid(items, j) ==
    CHOOSE i \in ValidPositions(items) :
        Cardinality({h \in ValidPositions(items) : h <= i}) = j

\* records is the list of the items that pass, in their order.
IsValidSubsequence(records, items) ==
    /\ Len(records) = Cardinality(ValidPositions(items))
    /\ \A j \in 1..Len(records) :
          /\ records[j].filename = items[NthValid(items, j)].filename
          /\ records[j].rows = items[NthValid(items, j)].rows
          /\ records[j].uploaded_at = items[NthValid(items, j)].uploaded_at

\* C12: malformed records are excluded without failing the source.  Both
\* loaders, given a file that exists, return; what they return has an entry
\* for every source of the raw data; the entry of a source is the list of its
\* items that pass the validation of FileData, in their order, the empty list
\* when none passes; and the entry of a source, once stored, is not touched by
\* the items of the sources after it.
C12_MalformedExcluded ==
    /\ step = "raised" => (method = "load_files_data" /\ ~path_exists)
    /\ (method \in {"load_files_data", "load_last_weekday_files"} /\ path_exists) =>
          /\ step = "returned" => DOMAIN parsed_data = 1..Len(raw_data)
          /\ \A s \in DOMAIN parsed_data :
                IsValidSubsequence(parsed_data[s], raw_data[s])

\* C12 witness: a file whose first source has only an item that is not an
\* object and whose second source has an item without uploaded_at before a
\* good one: the first source maps to the empty list, the second to the good
\* record.
C12_Witness ==
    /\ step = "returned"
    /\ method = "load_last_weekday_files"
    /\ Len(raw_data) = 2
    /\ Len(raw_data[1]) = 1
    /\ raw_data[1][1].kind = "string"
    /\ Len(raw_data[2]) = 2
    /\ raw_data[2][1].uploaded_at = Absent
    /\ raw_data[2][2].filename = "b.csv"
    /\ DOMAIN parsed_data = {1, 2}
    /\ parsed_data[1] = <<>>
    /\ Len(parsed_data[2]) = 1
    /\ parsed_data[2][1].filename = "b.csv"

\* The rows of a day whose second cell holds row statistics, by position.
StatsRows(day) ==
    {i \in 1..Len(content) : content[i].day = day /\ content[i].cell.kind = "stats"}

\* The label the profile gives a statistic.
LabelOf(key) == IF key = "mean" THEN "Mean" ELSE IF key = "min" THEN "Min" ELSE "Max"

\* C14: parse_cv treats absence as no expectation.  In the profile it
\* returns, a weekday has a schedule entry only if the text has a row of that
\* weekday with an HH:MM time, which the entry holds; each of mean, min, max
\* of a weekday is there only if the weekday's row of statistics has that
\* statistic, and holds its number without the thousands separators; and the
\* statistics of a weekday are those of its row of statistics (the first one),
\* whatever other rows of that weekday the text has.
C14_AbsenceIsNoExpectation ==
    (method = "parse_cv" /\ step = "returned") =>
        /\ \A e \in upload_schedule :
              /\ e[2] # Absent
              /\ \E i \in 1..Len(content) :
                    content[i].day = e[1] /\ content[i].cell.time = e[2]
        /\ \A e \in volume_stats : \A st \in e[2] :
              /\ st[1] \in {"mean", "min", "max"}
              /\ \E i \in StatsRows(e[1]) : \E x \in content[i].cell.stats :
                    x[1] = LabelOf(st[1]) /\ st[2] = Float(x[2])
        /\ \A d \in {"Mon", "Tue", "Wed", "Thu", "Fri", "Sat", "Sun"} :
              StatsRows(d) # {} =>
                LET first == CHOOSE i \in StatsRows(d) : \A h \in StatsRows(d) : i <= h
                IN  \E e \in volume_stats :
                      /\ e[1] = d
                      /\ \A x \in content[first].cell.stats :
                            x[1] \in {"Mean", "Min", "Max"} =>
                                \E st \in e[2] : x[1] = LabelOf(st[1]) /\ st[2] = Float(x[2])

====
